---- MODULE Spec2Model ----
(***************************************************************************)
(* Model of the page-to-mdx converter (src/utils/htmlToMdx.ts).            *)
(*                                                                         *)
(* Strings are sequences of one-character strings, so that the regular     *)
(* expressions of the source act on characters as they do in the code.     *)
(* A node of the document tree is a record                                 *)
(*   [tag, text, href, src, alt, kids]                                     *)
(* where tag = "#text" marks a text node (its data in text) and any other  *)
(* tag an element (its children in kids, its attributes in href/src/alt;   *)
(* an absent attribute is the empty string, which every use in the source  *)
(* treats like an absent one).                                             *)
(***************************************************************************)
EXTENDS Integers, Sequences, FiniteSets, TLC

VARIABLES
    parsed,     \* the document as DOMParser.parseFromString returned it
    doc,        \* the document object htmlToMdx works on
    options,    \* ConversionOptions after defaulting
    pc,         \* position of the call
    mdx,        \* the local string mdx, as handed to cleanupMdx
    out,        \* the returned string
    mdxContent, \* popup state: the converted text on display
    isLoading,  \* popup state: a transformation is running
    error,      \* popup state: the message on display
    pageData,   \* popup state: the data of the converted page
    isExpanded, \* popup state: the preview is expanded
    channel     \* the message between popup and content script in flight

popupVars == <<mdxContent, isLoading, error, pageData, isExpanded, channel>>

vars == <<parsed, doc, options, pc, mdx, out, popupVars>>

----------------------------------------------------------------------------
(* Characters and string primitives of the JavaScript runtime.             *)

NL == "\n"

\* whitespace as matched by \s and stripped by String.prototype.trim
IsSpace(c) == c \in {" ", "\t", "\n"}

\* the class [ \t]
IsHSpace(c) == c \in {" ", "\t"}

\* the concatenation of pieces[lo..hi], halving the range
RECURSIVE concatRange(_, _, _)
concatRange(pieces, lo, hi) ==
    IF lo > hi THEN <<>>
    ELSE IF lo = hi THEN pieces[lo]
    ELSE LET mid == (lo + hi) \div 2
         IN  concatRange(pieces, lo, mid) \o concatRange(pieces, mid + 1, hi)

concat(pieces) == concatRange(pieces, 1, Len(pieces))

\* the first and the last position of s that hold no whitespace
firstInk(s) ==
    CHOOSE i \in 1..Len(s) :
        ~IsSpace(s[i]) /\ \A j \in 1..(i - 1) : IsSpace(s[j])

lastInk(s) ==
    CHOOSE i \in 1..Len(s) :
        ~IsSpace(s[i]) /\ \A j \in (i + 1)..Len(s) : IsSpace(s[j])

\* String.prototype.trim
trim(s) ==
    IF \A i \in 1..Len(s) : IsSpace(s[i]) THEN <<>>
    ELSE SubSeq(s, firstInk(s), lastInk(s))

\* s.replace(/\s+/g, " "): a run of whitespace leaves one space
collapseWhitespace(s) ==
    concat([i \in 1..Len(s) |->
              IF ~IsSpace(s[i]) THEN <<s[i]>>
              ELSE IF i > 1 /\ IsSpace(s[i - 1]) THEN <<>> ELSE <<" ">>])

\* s.split("\n")
RECURSIVE split(_)
split(s) ==
    IF \A i \in 1..Len(s) : s[i] # NL THEN <<s>>
    ELSE LET k == CHOOSE i \in 1..Len(s) :
                      s[i] = NL /\ \A j \in 1..(i - 1) : s[j] # NL
         IN  <<SubSeq(s, 1, k - 1)>> \o split(SubSeq(s, k + 1, Len(s)))

\* lines.join(sep)
join(lines, sep) ==
    concat([i \in 1..Len(lines) |->
              IF i = 1 THEN lines[i] ELSE sep \o lines[i]])

\* s.replace(/\|/g, "\\|")
escapePipes(s) ==
    concat([i \in 1..Len(s) |->
              IF s[i] = "|" THEN <<"\\", "|">> ELSE <<s[i]>>])

----------------------------------------------------------------------------
(* cleanupMdx: the five chained calls, in the order of the source.         *)

\* .replace(/\n{3,}/g, "\n\n"): of a run of newlines only two stay
collapseNewlines(s) ==
    concat([i \in 1..Len(s) |->
              IF s[i] = NL /\ i >= 3 /\ s[i - 1] = NL /\ s[i - 2] = NL
              THEN <<>> ELSE <<s[i]>>])

\* position i lies in a run of newlines that a "#" follows
beforeHash(s, i) ==
    \E j \in (i + 1)..Len(s) : s[j] = "#" /\ \A k \in i..(j - 1) : s[k] = NL

\* .replace(/\n+#/g, "\n\n#"): such a run becomes two newlines
spaceHeaders(s) ==
    concat([i \in 1..Len(s) |->
              IF s[i] = NL /\ beforeHash(s, i)
              THEN IF i > 1 /\ s[i - 1] = NL THEN <<>> ELSE <<NL, NL>>
              ELSE <<s[i]>>])

\* position i lies in a run of [ \t] that ends its line
atLineEnd(s, i) ==
    /\ IsHSpace(s[i])
    /\ \E j \in i..Len(s) :
           /\ (j = Len(s) \/ s[j + 1] = NL)
           /\ \A k \in i..j : IsHSpace(s[k])

\* .replace(/[ \t]+$/gm, "")
stripLineEnds(s) ==
    concat([i \in 1..Len(s) |-> IF atLineEnd(s, i) THEN <<>> ELSE <<s[i]>>])

\* .replace(/\n*$/, "\n"): the final run of newlines becomes one newline
endWithNewline(s) ==
    (IF \A i \in 1..Len(s) : s[i] = NL THEN <<>>
     ELSE SubSeq(s, 1, CHOOSE i \in 1..Len(s) :
                           s[i] # NL /\ \A j \in (i + 1)..Len(s) : s[j] = NL))
    \o <<NL>>

cleanupMdx(s) ==
    trim(endWithNewline(stripLineEnds(spaceHeaders(collapseNewlines(s)))))

----------------------------------------------------------------------------
(* The document tree and the DOM queries the converter uses.               *)

Text(s) ==
    [tag |-> "#text", text |-> s, href |-> <<>>, src |-> <<>>, alt |-> <<>>,
     kids |-> <<>>]

Elem(tag, kids) ==
    [tag |-> tag, text |-> <<>>, href |-> <<>>, src |-> <<>>, alt |-> <<>>,
     kids |-> kids]

Anchor(href, kids) == [Elem("a", kids) EXCEPT !.href = href]

Img(src, alt) == [Elem("img", <<>>) EXCEPT !.src = src, !.alt = alt]

IsText(n) == n.tag = "#text"

IsElement(n) == n.tag # "#text"

\* Node.textContent: the data of every descendant text node, in order
RECURSIVE textContent(_), textContentOfAll(_)
textContent(n) == IF IsText(n) THEN n.text ELSE textContentOfAll(n.kids)
textContentOfAll(kids) ==
    IF kids = <<>> THEN <<>>
    ELSE textContent(Head(kids)) \o textContentOfAll(Tail(kids))

\* the element descendants of a child list, in document order
RECURSIVE descendants(_)
descendants(kids) ==
    IF kids = <<>> THEN <<>>
    ELSE (IF IsElement(Head(kids))
          THEN <<Head(kids)>> \o descendants(Head(kids).kids)
          ELSE <<>>) \o descendants(Tail(kids))

\* el.querySelectorAll with a selector that is a list of tag names
querySelectorAll(el, tags) ==
    SelectSeq(descendants(el.kids), LAMBDA n : n.tag \in tags)

\* the selector "li", which also finds nested items
allItems(el) == querySelectorAll(el, {"li"})

\* el.querySelectorAll(":scope > li")
directItems(el) == SelectSeq(el.kids, LAMBDA n : n.tag = "li")

\* the selector "script, style, noscript"
RemovedTags == {"script", "style", "noscript"}

\* the selector with only its first tag
matchesScriptOnly(n) == n.tag = "script"

matchesRemoved(n) == n.tag \in RemovedTags

\* removal that reaches only the children of the body
removeShallow(kids) == SelectSeq(kids, LAMBDA n : n.tag \notin RemovedTags)

\* scriptsAndStyles.forEach((el) => el.remove()), on a child list
RECURSIVE removeAll(_)
removeAll(kids) ==
    IF kids = <<>> THEN <<>>
    ELSE IF matchesRemoved(Head(kids)) THEN removeAll(Tail(kids))
    ELSE <<[Head(kids) EXCEPT !.kids = removeAll(@)]>> \o removeAll(Tail(kids))

----------------------------------------------------------------------------
(* The converter.                                                          *)

getTextContent(el) == trim(collapseWhitespace(textContent(el)))

\* the grave accent (U+0060), which a TLA+ string cannot hold, as one character
Backtick == "<grave>"

CodeFence == <<Backtick, Backtick, Backtick>>

HeadingTags == {"h1", "h2", "h3", "h4", "h5", "h6"}

\* parseInt(tagName.charAt(1))
headingLevel(tag) ==
    CASE tag = "h1" -> 1 [] tag = "h2" -> 2 [] tag = "h3" -> 3
      [] tag = "h4" -> 4 [] tag = "h5" -> 5 [] tag = "h6" -> 6

\* "#".repeat(level)
repeatHash(level) == [i \in 1..level |-> "#"]

Digits == <<"0", "1", "2", "3", "4", "5", "6", "7", "8", "9">>

\* the decimal digits of a number inside a template string
RECURSIVE toString(_)
toString(n) ==
    IF n < 10 THEN <<Digits[n + 1]>>
    ELSE toString(n \div 10) \o <<Digits[(n % 10) + 1]>>

\* const prefix = isOrdered ? (index + 1) + ". " : "- "
itemPrefix(isOrdered, index) ==
    IF isOrdered THEN toString(index + 1) \o <<".", " ">> ELSE <<"-", " ">>

\* line.trim() ? "> " + line : ">"
quoteLine(line) == IF trim(line) # <<>> THEN <<">", " ">> \o line ELSE <<">">>

\* the separator test without the row index
needsSeparatorAnyRow(rowIndex, row) == querySelectorAll(row, {"th"}) # <<>>

\* rowIndex === 0 && row.querySelector("th")
needsSeparator(rowIndex, row) ==
    rowIndex = 0 /\ querySelectorAll(row, {"th"}) # <<>>

\* the text a text child adds to the result of convertChildren
textChild(child) ==
    LET text == trim(child.text)
    IN  IF text # <<>> THEN text \o <<" ">> ELSE <<>>

\* getTextContent(cell).replace(/\|/g, "\\|").trim()
cellText(cell) == trim(escapePipes(getTextContent(cell)))

cellTextsOf(row) ==
    LET cells == querySelectorAll(row, {"td", "th"})
    IN  [i \in 1..Len(cells) |-> cellText(cells[i])]

\* the text one row adds to the result of convertTable
tableRow(row, rowIndex) ==
    LET cellTexts == cellTextsOf(row)
    IN  <<"|", " ">> \o join(cellTexts, <<" ", "|", " ">>) \o <<" ", "|", NL>>
        \o (IF needsSeparator(rowIndex, row)
            THEN <<"|", " ">>
                 \o join([i \in 1..Len(cellTexts) |-> <<"-", "-", "-">>],
                         <<" ", "|", " ">>)
                 \o <<" ", "|", NL>>
            ELSE <<>>)

\* rows.forEach((row, rowIndex) => ...), from rowIndex on
RECURSIVE tableRows(_, _)
tableRows(rows, rowIndex) ==
    IF rowIndex >= Len(rows) THEN <<>>
    ELSE tableRow(rows[rowIndex + 1], rowIndex) \o tableRows(rows, rowIndex + 1)

convertTable(tableElement) ==
    LET rows == querySelectorAll(tableElement, {"tr"})
    IN  IF Len(rows) = 0 THEN <<>>
        ELSE <<NL>> \o tableRows(rows, 0) \o <<NL>>

RECURSIVE convertElement(_, _), convertChildren(_, _), convertNodes(_, _),
          convertList(_, _, _), listItems(_, _, _, _)

convertElement(element, opts) ==
    LET tagName == element.tag
    IN  CASE tagName \in HeadingTags ->
               <<NL>> \o repeatHash(headingLevel(tagName)) \o <<" ">>
               \o getTextContent(element) \o <<NL, NL>>
          [] tagName = "p" ->
               LET pText == convertChildren(element, opts)
               IN  IF trim(pText) # <<>> THEN pText \o <<NL, NL>> ELSE <<>>
          [] tagName \in {"div", "section", "article", "main"} ->
               convertChildren(element, opts)
          [] tagName \in {"ul", "ol"} ->
               convertList(element, opts, tagName = "ol")
          [] tagName = "li" -> <<>>
          [] tagName = "a" ->
               LET text == getTextContent(element)
               IN  IF opts.preserveLinks /\ element.href # <<>> /\ text # <<>>
                   THEN <<"[">> \o text \o <<"]", "(">> \o element.href
                        \o <<")">>
                   ELSE text
          [] tagName = "img" ->
               IF opts.preserveImages /\ element.src # <<>>
               THEN <<"!", "[">> \o element.alt \o <<"]", "(">> \o element.src
                    \o <<")">>
               ELSE <<>>
          [] tagName \in {"strong", "b"} ->
               <<"*", "*">> \o getTextContent(element) \o <<"*", "*">>
          [] tagName \in {"em", "i"} ->
               <<"*">> \o getTextContent(element) \o <<"*">>
          [] tagName = "code" ->
               <<Backtick>> \o getTextContent(element) \o <<Backtick>>
          [] tagName = "pre" ->
               <<NL>> \o CodeFence \o <<NL>> \o getTextContent(element)
               \o <<NL>> \o CodeFence \o <<NL, NL>>
          [] tagName = "blockquote" ->
               LET quoteText == convertChildren(element, opts)
                   lines == split(quoteText)
                   quotedLines ==
                       join([i \in 1..Len(lines) |-> quoteLine(lines[i])],
                            <<NL>>)
               IN  <<NL>> \o quotedLines \o <<NL, NL>>
          [] tagName = "br" -> <<NL>>
          [] tagName = "hr" -> <<NL, "-", "-", "-", NL, NL>>
          [] tagName = "table" -> convertTable(element)
          [] OTHER -> convertChildren(element, opts)

convertChildren(element, opts) == convertNodes(element.kids, opts)

\* the loop over element.childNodes
convertNodes(kids, opts) ==
    IF kids = <<>> THEN <<>>
    ELSE (IF IsText(Head(kids)) THEN textChild(Head(kids))
          ELSE convertElement(Head(kids), opts))
         \o convertNodes(Tail(kids), opts)

convertList(listElement, opts, isOrdered) ==
    <<NL>> \o listItems(directItems(listElement), 0, opts, isOrdered) \o <<NL>>

\* items.forEach((item, index) => ...), from index on
listItems(items, index, opts, isOrdered) ==
    IF index >= Len(items) THEN <<>>
    ELSE itemPrefix(isOrdered, index)
         \o trim(convertChildren(items[index + 1], opts)) \o <<NL>>
         \o listItems(items, index + 1, opts, isOrdered)

\* new Date().toISOString(): the reading of the clock, fixed for one call
NowISO == <<"2", "0", "2", "6">>

Untitled == <<"U", "n", "t", "i", "t", "l", "e", "d">>

TitleKey == <<"t", "i", "t", "l", "e", ":", " ", "\"">>

DescriptionKey ==
    <<"d", "e", "s", "c", "r", "i", "p", "t", "i", "o", "n", ":", " ", "\"">>

DateKey == <<"d", "a", "t", "e", ":", " ", "\"">>

Fence == <<"-", "-", "-">>

\* a front matter that writes the description line unconditionally
frontMatterWithDescription(d) ==
    Fence \o <<NL>>
    \o TitleKey \o (IF d.title # <<>> THEN d.title ELSE Untitled) \o <<"\"", NL>>
    \o DescriptionKey \o d.description \o <<"\"", NL>>
    \o DateKey \o NowISO \o <<"\"", NL>>
    \o Fence \o <<NL, NL>>

\* the block added to mdx when includeMetadata is set
frontMatter(d) ==
    LET title == IF d.title # <<>> THEN d.title ELSE Untitled
        description == d.description
    IN  Fence \o <<NL>>
        \o TitleKey \o title \o <<"\"", NL>>
        \o (IF description # <<>>
            THEN DescriptionKey \o description \o <<"\"", NL>> ELSE <<>>)
        \o DateKey \o NowISO \o <<"\"", NL>>
        \o Fence \o <<NL, NL>>

\* the value of the local mdx just before cleanupMdx is called
assemble(d, opts) ==
    (IF opts.includeMetadata THEN frontMatter(d) ELSE <<>>)
    \o convertElement(d.body, opts)

----------------------------------------------------------------------------
(* The inputs: documents a parser can hand to the converter.               *)

MaxNest  == 2   \* elements nested around the innermost text
MaxItems == 2   \* children of a list element
MaxRows  == 2   \* rows of a table
MaxCells == 2   \* cells of a row
MaxLen   == 6   \* length of a string handed to cleanupMdx on its own

BoundedSeqs(S, n) == UNION {[1..k -> S] : k \in 0..n}

A == <<"a">>

\* text with a blank line that holds a space
Gapped == <<"a", NL, NL, " ", NL, "b">>

\* Z occurs in the inputs only as text, so that its origin can be traced
Z == <<"z">>

LeafTexts == {A, <<"a", NL, "b">>, Gapped, <<" ">>, Z}

NestTags == {"p", "h2", "a", "pre", "blockquote", "script", "noscript"}

MakeElem(tag, kids) ==
    IF tag = "a" THEN Anchor(<<"u">>, kids) ELSE Elem(tag, kids)

\* a text inside the elements tags, outermost first, each followed by "a"
RECURSIVE Nest(_, _)
Nest(tags, leaf) ==
    IF tags = <<>> THEN <<Text(leaf)>>
    ELSE <<MakeElem(Head(tags), Nest(Tail(tags), leaf)), Text(A)>>

NestBodies ==
    {Nest(tags, leaf) : tags \in BoundedSeqs(NestTags, MaxNest),
                        leaf \in LeafTexts}

Li(kids) == Elem("li", kids)

ListChildren ==
    {Li(<<Text(A)>>),
     Li(<<Text(<<" ", "b", NL>>)>>),
     Li(<<Text(A), Elem("ul", <<Li(<<Text(<<"c">>)>>)>>)>>),
     Elem("div", <<Li(<<Text(<<"d">>)>>)>>),
     Text(<<"e">>)}

ListBodies ==
    {<<Elem(tag, kids)>> : tag \in {"ul", "ol"},
                           kids \in BoundedSeqs(ListChildren, MaxItems)}

CellChoices ==
    {Elem("td", <<Text(<<"a", "|", "b">>)>>), Elem("th", <<Text(<<"h">>)>>)}

RowChoices == {Elem("tr", cells) : cells \in BoundedSeqs(CellChoices, MaxCells)}

\* a table as the parser builds it
TableBodies ==
    {<<Elem("table", <<Elem("tbody", rows)>>)>> :
         rows \in BoundedSeqs(RowChoices, MaxRows)}

\* a table inside a cell of the first or of the second row of another table
NestedTableBodies ==
    {<<Elem("table",
            <<Elem("tbody",
                   before \o
                   <<Elem("tr",
                          <<Elem("td", <<Elem("table", <<inner>>)>>)>>)>>)>>)>> :
         before \in {<<>>, <<Elem("tr", <<Elem("td", <<Text(A)>>)>>)>>},
         inner \in {Elem("tr", <<Elem("th", <<Text(<<"n">>)>>)>>),
                    Elem("tr", <<Elem("td", <<Text(<<"n">>)>>)>>)}}

\* a script, style or noscript element inside a table cell and a list item
HiddenBodies ==
    {<<Elem("table",
            <<Elem("tr",
                   <<Elem("td", <<Text(A), Elem(tag, <<Text(Z)>>)>>)>>)>>)>> :
         tag \in RemovedTags}
    \cup
    {<<Elem("ul", <<Li(<<Elem(tag, <<Text(Z)>>), Text(A)>>)>>)>> :
         tag \in RemovedTags}

AttrBodies ==
    {<<Text(A), Anchor(href, kids)>> :
         href \in {<<>>, <<"u">>, <<"u", NL, NL, " ", NL, "v">>},
         kids \in {<<>>, <<Text(<<"t">>)>>}}
    \cup
    {<<Text(A), Img(src, alt)>> :
         src \in {<<>>, <<"s">>}, alt \in {<<>>, <<"x">>}}

MetaBodies ==
    {<<>>,
     <<Elem("br", <<>>)>>,
     <<Elem("p", <<Text(A)>>)>>,
     <<Elem("h1", <<Text(A)>>)>>}

Titles == {<<>>, <<"T">>}

Descriptions == {<<>>, <<"d">>, <<"d", " ", NL, "e">>}

Document(title, description, kids) ==
    [title |-> title, description |-> description, body |-> Elem("body", kids)]

Options ==
    [preserveImages : BOOLEAN, preserveLinks : BOOLEAN,
     includeMetadata : BOOLEAN]

DefaultOptions ==
    [preserveImages |-> FALSE, preserveLinks |-> FALSE,
     includeMetadata |-> FALSE]

AllOptions ==
    [preserveImages |-> TRUE, preserveLinks |-> TRUE, includeMetadata |-> TRUE]

Call(d, opts) == [doc |-> d, options |-> opts]

\* the calls: a document and the options it is converted with; a switch
\* that no element of a family reads is left at one value
Calls ==
    {Call(Document(<<"T">>, <<>>, kids), opts) :
         kids \in NestBodies, opts \in {o \in Options : ~o.preserveImages}}
    \cup
    {Call(Document(<<"T">>, <<>>, kids), opts) :
         kids \in ListBodies \cup TableBodies,
         opts \in {DefaultOptions, AllOptions}}
    \cup
    {Call(Document(<<"T">>, <<>>, kids), opts) :
         kids \in AttrBodies \cup HiddenBodies \cup NestedTableBodies,
         opts \in Options}
    \cup
    {Call(Document(title, description, kids), opts) :
         title \in Titles, description \in Descriptions, kids \in MetaBodies,
         opts \in Options}

CleanupAlphabet == {"a", " ", NL, "#"}

CleanupInputs == BoundedSeqs(CleanupAlphabet, MaxLen)

----------------------------------------------------------------------------
(* One call of htmlToMdx on a parsed document.                             *)

\* pageData: null
NoPageData == [present |-> FALSE, title |-> <<>>]

\* no message under way
NoMessage == [kind |-> "none", success |-> FALSE, error |-> ""]

\* the initial values given to useState
PopupInit ==
    /\ mdxContent = <<>>
    /\ isLoading = FALSE
    /\ error = ""
    /\ pageData = NoPageData
    /\ isExpanded = FALSE
    /\ channel = NoMessage

Init ==
    /\ PopupInit
    /\ \E c \in Calls : parsed = c.doc /\ options = c.options
    /\ doc = parsed
    /\ pc = "parsed"
    /\ mdx = <<>>
    /\ out = <<>>

htmlToMdx ==
    /\ pc = "parsed"
    /\ doc' = [doc EXCEPT !.body.kids = removeAll(@)]
    /\ mdx' = assemble(doc', options)
    /\ out' = cleanupMdx(mdx')
    /\ pc' = "returned"
    /\ UNCHANGED <<parsed, options, popupVars>>

Next == htmlToMdx

Spec == Init /\ [][Next]_vars

(* cleanupMdx on its own, applied to a string and then to its own result.  *)

InitCleanup ==
    /\ PopupInit
    /\ parsed = Document(<<>>, <<>>, <<>>)
    /\ doc = parsed
    /\ options = DefaultOptions
    /\ pc = "text"
    /\ mdx \in CleanupInputs
    /\ out = <<>>

cleanupCall ==
    /\ pc \in {"text", "cleaned"}
    /\ mdx' = (IF pc = "text" THEN mdx ELSE out)
    /\ out' = cleanupMdx(mdx')
    /\ pc' = (IF pc = "text" THEN "cleaned" ELSE "recleaned")
    /\ UNCHANGED <<parsed, doc, options, popupVars>>

NextCleanup == cleanupCall

SpecCleanup == InitCleanup /\ [][NextCleanup]_vars

----------------------------------------------------------------------------
(* Vocabulary of the properties.                                           *)

returned == pc = "returned"

Chars(s) == {s[i] : i \in 1..Len(s)}

StartsWith(s, prefix) ==
    Len(s) >= Len(prefix) /\ SubSeq(s, 1, Len(prefix)) = prefix

HasTripleNewline(s) ==
    \E i \in 1..(Len(s) - 2) : s[i] = NL /\ s[i + 1] = NL /\ s[i + 2] = NL

\* the elements of a document, the body included
ElementsOf(d) ==
    LET all == <<d.body>> \o descendants(d.body.kids)
    IN  {all[i] : i \in 1..Len(all)}

\* characters that occur in the output only if some text carried them there
Tracers == {"z"}

\* every node under kids as <<depth, node without its children>>, in
\* document order; with skip, subtrees of script, style, noscript are left out
RECURSIVE Outline(_, _, _)
Outline(kids, depth, skip) ==
    IF kids = <<>> THEN <<>>
    ELSE LET n == Head(kids)
         IN  (IF skip /\ n.tag \in RemovedTags THEN <<>>
              ELSE <<<<depth, [n EXCEPT !.kids = <<>>]>>>>
                   \o Outline(n.kids, depth + 1, skip))
             \o Outline(Tail(kids), depth, skip)

\* all character data of a document that lies outside script, style, noscript
VisibleChars(d) ==
    LET o == Outline(d.body.kids, 1, TRUE)
    IN  Chars(d.title) \cup Chars(d.description)
        \cup UNION {Chars(o[i][2].text) \cup Chars(o[i][2].href)
                    \cup Chars(o[i][2].src) \cup Chars(o[i][2].alt) :
                    i \in 1..Len(o)}

\* all character data of a document
AllChars(d) ==
    LET o == Outline(d.body.kids, 1, FALSE)
    IN  Chars(d.title) \cup Chars(d.description)
        \cup UNION {Chars(o[i][2].text) \cup Chars(o[i][2].href)
                    \cup Chars(o[i][2].src) \cup Chars(o[i][2].alt) :
                    i \in 1..Len(o)}

----------------------------------------------------------------------------
(* C1 - the string htmlToMdx returns never holds three or more newlines    *)
(* in a row.                                                               *)
C1_NoTripleNewline == returned => ~HasTripleNewline(out)

(* C2 - cleanupMdx is idempotent: applied to its own result it returns     *)
(* that result unchanged.                                                  *)
C2_CleanupIdempotent == pc = "recleaned" => out = mdx

(* C3 - the returned document ends with exactly one newline and does not   *)
(* start with a blank line.                                                *)
C3_SingleTrailingNewline ==
    returned =>
        /\ out # <<>>
        /\ out[Len(out)] = NL
        /\ (Len(out) > 1 => out[Len(out) - 1] # NL)
        /\ out[1] # NL

(* C4 - for every pre element the text between the fence lines is the      *)
(* text of its descendants verbatim, whitespace and newlines included.     *)
C4_PreVerbatim ==
    returned =>
        \A e \in ElementsOf(doc) :
            e.tag = "pre" =>
                convertElement(e, options) =
                    <<NL>> \o CodeFence \o <<NL>> \o textContent(e)
                    \o <<NL>> \o CodeFence \o <<NL, NL>>

(* C5 - text inside a script, style or noscript subtree never reaches the  *)
(* output: a character that the parsed document holds only inside such     *)
(* subtrees does not occur in the returned string, whatever encloses the   *)
(* subtree and however deep it lies.  The character is one no rule of the  *)
(* converter writes by itself (a space or a newline can stem from markup). *)
C5_ScriptTextNeverEmitted ==
    returned =>
        \A c \in Tracers \cap (AllChars(parsed) \ VisibleChars(parsed)) :
            c \notin Chars(out)

C5_Witness ==
    /\ returned
    /\ parsed.body.kids = Nest(<<"h2", "script">>, Z)
    /\ "z" \in AllChars(parsed) \ VisibleChars(parsed)
    /\ out # <<>>

----------------------------------------------------------------------------
(* The front matter, read off the lines of the returned string.            *)

TitleLine(d) ==
    TitleKey \o (IF d.title # <<>> THEN d.title ELSE Untitled) \o <<"\"">>

DateLine == DateKey \o NowISO \o <<"\"">>

\* the first lines: fence, title, then the description exactly if there is one
FrontMatterHead(d, lines) ==
    /\ Len(lines) >= 4
    /\ lines[1] = Fence
    /\ lines[2] = TitleLine(d)
    /\ (d.description # <<>> <=> StartsWith(lines[3], DescriptionKey))
    /\ (d.description = <<>> => lines[3] = DateLine)

\* line k is the date line and line k + 1 the closing fence
ClosesAt(lines, k) ==
    /\ k + 1 <= Len(lines)
    /\ lines[k] = DateLine
    /\ lines[k + 1] = Fence

\* the closing fence after line k is followed by an empty line and more
BlankLineAfter(lines, k) == Len(lines) >= k + 3 /\ lines[k + 2] = <<>>

\* the body of the document converts to nothing but whitespace
BodyBlank == trim(convertElement(doc.body, options)) = <<>>

(* C6 - with includeMetadata set the returned string begins with the       *)
(* front matter: a fence line, the title line (Untitled for an empty       *)
(* title), a description line exactly if the description is not empty,     *)
(* the date line, and a closing fence line followed by a blank line, for   *)
(* every document, one with an empty body included.                        *)
C6_FrontMatterAlways ==
    (returned /\ options.includeMetadata) =>
        LET lines == split(out)
        IN  /\ FrontMatterHead(doc, lines)
            /\ \E k \in 3..Len(lines) :
                   ClosesAt(lines, k) /\ BlankLineAfter(lines, k)

(* C6 as amended - the same, except that the blank line follows the        *)
(* closing fence only if the body converts to something other than         *)
(* whitespace; otherwise the closing fence ends the returned string.       *)
C6_FrontMatterBeforeBody ==
    (returned /\ options.includeMetadata) =>
        LET lines == split(out)
        IN  /\ FrontMatterHead(doc, lines)
            /\ \E k \in 3..Len(lines) :
                   /\ ClosesAt(lines, k)
                   /\ IF BodyBlank THEN Len(lines) = k + 1
                      ELSE BlankLineAfter(lines, k)

C6_Witness ==
    /\ returned
    /\ options.includeMetadata
    /\ doc.title = <<>>
    /\ doc.description # <<>>
    /\ doc.body.kids = <<>>
    /\ out # <<>>

----------------------------------------------------------------------------
(* The table flattener, read off the lines it returns.                     *)

\* the separator line of k columns
SeparatorLine(k) ==
    <<"|", " ">>
    \o join([i \in 1..k |-> <<"-", "-", "-">>], <<" ", "|", " ">>)
    \o <<" ", "|">>

IsSeparator(line) == \E k \in 1..Len(line) : line = SeparatorLine(k)

\* the rows of a table and the cells of a row, by position in the tree
RowsOf(t) ==
    LET all == descendants(t.kids)
    IN  SelectSeq(all, LAMBDA n : n.tag = "tr")

CellsOf(row) ==
    LET all == descendants(row.kids)
    IN  SelectSeq(all, LAMBDA n : n.tag = "td" \/ n.tag = "th")

HasHeaderCell(row) ==
    \E i \in 1..Len(CellsOf(row)) : CellsOf(row)[i].tag = "th"

TablesOf(d) == {e \in ElementsOf(d) : e.tag = "table" /\ RowsOf(e) # <<>>}

(* C7 - for every table with at least one row, convertTable returns a      *)
(* separator line if and only if the first row holds a th cell; the        *)
(* separator is the line right after the line of the first row, no other   *)
(* line is a separator, and it has as many --- cells as the first row has  *)
(* cells.  (No text of the inputs holds a "-", so a line of --- cells is   *)
(* one the flattener wrote as a separator.)                                *)
C7_SeparatorAfterHeaderRow ==
    returned =>
        \A t \in TablesOf(doc) :
            LET lines == split(convertTable(t))
                first == RowsOf(t)[1]
                seps == {i \in 1..Len(lines) : IsSeparator(lines[i])}
            IN  /\ seps = (IF HasHeaderCell(first) THEN {3} ELSE {})
                /\ HasHeaderCell(first) =>
                       lines[3] = SeparatorLine(Len(CellsOf(first)))
                /\ Len(lines) = Len(RowsOf(t)) + Cardinality(seps) + 3

C7_Witness ==
    /\ returned
    /\ \E t \in TablesOf(doc) :
           /\ Len(RowsOf(t)) >= 2
           /\ Len(CellsOf(RowsOf(t)[1])) >= 2
           /\ HasHeaderCell(RowsOf(t)[1])
           /\ HasHeaderCell(RowsOf(t)[2])
    /\ "-" \in Chars(out)

----------------------------------------------------------------------------
(* The list flattener.                                                     *)

\* the positions of the direct li children among the children of a list
ItemPositions(l) == {i \in 1..Len(l.kids) : l.kids[i].tag = "li"}

\* the n-th direct li child
NthItem(l, n) ==
    l.kids[CHOOSE i \in ItemPositions(l) :
               Cardinality({j \in ItemPositions(l) : j <= i}) = n]

\* what the list flattener is to return for the n-th direct li child
ExpectedItem(l, n, opts) ==
    (IF l.tag = "ol" THEN toString(n) \o <<".", " ">> ELSE <<"-", " ">>)
    \o trim(convertChildren(NthItem(l, n), opts)) \o <<NL>>

ListsOf(d) == {e \in ElementsOf(d) : e.tag \in {"ul", "ol"}}

(* C8 - for every ul/ol element convertList returns one prefixed item per  *)
(* direct li child, in document order: the i-th direct li of an ol is      *)
(* prefixed "i. " (counting direct li children only, from 1), every direct *)
(* li of a ul "- "; nothing else, and no li below another child of the     *)
(* list, yields an item.                                                   *)
C8_OneItemPerDirectLi ==
    returned =>
        \A l \in ListsOf(doc) :
            convertList(l, options, l.tag = "ol") =
                <<NL>>
                \o concat([n \in 1..Cardinality(ItemPositions(l)) |->
                             ExpectedItem(l, n, options)])
                \o <<NL>>

C8_Witness ==
    /\ returned
    /\ \E l \in ListsOf(doc) :
           /\ l.tag = "ol"
           /\ Len(l.kids) = 2
           /\ l.kids[1].tag = "div"
           /\ l.kids[2].tag = "li"
    /\ StartsWith(out, <<"1", ".", " ">>)

----------------------------------------------------------------------------
(* C9 - a conversion never changes the parsed tree: after htmlToMdx has    *)
(* returned, the tree has the nodes, children and attributes it was parsed *)
(* with, script, style and noscript subtrees included.                     *)
C9_TreeUntouched == returned => doc = parsed

(* C9 as amended - a conversion changes the parsed tree only by removing   *)
(* every script, style and noscript subtree from it: the nodes left are    *)
(* the parsed nodes outside such subtrees, at their depth, in their order  *)
(* and with their attributes; title and description are as parsed.         *)
C9_OnlyScriptsRemoved ==
    returned =>
        /\ Outline(doc.body.kids, 1, FALSE) = Outline(parsed.body.kids, 1, TRUE)
        /\ [doc EXCEPT !.body.kids = <<>>] = [parsed EXCEPT !.body.kids = <<>>]

C9_Witness ==
    /\ returned
    /\ parsed.body.kids = Nest(<<"p", "noscript">>, A)
    /\ doc # parsed
    /\ doc.body.kids = <<Elem("p", <<Text(A)>>), Text(A)>>

----------------------------------------------------------------------------
(* C10 - in convertChildren a text child adds its text with whitespace     *)
(* runs collapsed to single spaces and trimmed, followed by one space if   *)
(* that text is not empty and nothing if it is; it never adds a newline.   *)
C10_TextChildCollapsed ==
    returned =>
        \A e \in ElementsOf(doc) :
            \A i \in 1..Len(e.kids) :
                IsText(e.kids[i]) =>
                    LET flat == trim(collapseWhitespace(e.kids[i].text))
                    IN  /\ textChild(e.kids[i]) =
                               (IF flat # <<>> THEN flat \o <<" ">> ELSE <<>>)
                        /\ NL \notin Chars(textChild(e.kids[i]))

----------------------------------------------------------------------------
(* The popup (src/entrypoints/popup/App.tsx) and the content script        *)
(* (src/entrypoints/content.ts).  A run of transformToMdx is cut at its    *)
(* two awaits; what lies between two awaits is one step.  A handler can    *)
(* start only from a button the current state renders.  In this            *)
(* specification pc is the position of the run, parsed the page of the     *)
(* active tab, and doc, mdx, out belong to the last call of htmlToMdx.     *)

\* a thrown value: an Error with its message, or something else
Thrown ==
    {[isError |-> TRUE, message |-> "rejected"],
     [isError |-> TRUE, message |-> ""],
     [isError |-> FALSE, message |-> ""]}

NewError(message) == [isError |-> TRUE, message |-> message]

\* err instanceof Error ? err.message : "An unknown error occurred"
errorText(err) ==
    IF err.isError THEN err.message ELSE "An unknown error occurred"

\* the catch and finally blocks
catchFinally(err) ==
    /\ error' = errorText(err)
    /\ isLoading' = FALSE
    /\ pc' = "idle"

\* the pages the active tab can show
PopupPages ==
    {Document(title, description, kids) :
         title \in Titles, description \in {<<>>, <<"d">>},
         kids \in MetaBodies \cup {Nest(<<"p", "script">>, Z)}}

InitPopup ==
    /\ PopupInit
    /\ parsed \in PopupPages
    /\ doc = parsed
    /\ options = AllOptions
    /\ pc = "idle"
    /\ mdx = <<>>
    /\ out = <<>>

\* the run up to its first await, without setError("")
transformToMdxKeepingError ==
    /\ pc = "idle"
    /\ mdxContent = <<>> /\ ~isLoading
    /\ isLoading' = TRUE
    /\ mdxContent' = <<>>
    /\ pc' = "awaitTabs"
    /\ UNCHANGED <<parsed, doc, options, mdx, out, error, pageData, isExpanded,
                   channel>>

\* a click on "Transform to MDX": the run up to its first await
transformToMdx ==
    /\ pc = "idle"
    /\ mdxContent = <<>> /\ ~isLoading
    /\ isLoading' = TRUE
    /\ error' = ""
    /\ mdxContent' = <<>>
    /\ pc' = "awaitTabs"
    /\ UNCHANGED <<parsed, doc, options, mdx, out, pageData, isExpanded,
                   channel>>

\* browser.tabs.query rejects
tabsQueryRejected ==
    /\ pc = "awaitTabs"
    /\ \E err \in Thrown : catchFinally(err)
    /\ UNCHANGED <<parsed, doc, options, mdx, out, mdxContent, pageData,
                   isExpanded, channel>>

\* browser.tabs.query resolves: up to the await of tabs.sendMessage
tabsQueryResolved ==
    /\ pc = "awaitTabs"
    /\ \E hasId \in BOOLEAN :
           IF hasId
           THEN /\ channel' = [NoMessage EXCEPT !.kind = "request"]
                /\ pc' = "awaitResponse"
                /\ UNCHANGED <<error, isLoading>>
           ELSE /\ catchFinally(NewError("No active tab found"))
                /\ UNCHANGED channel
    /\ UNCHANGED <<parsed, doc, options, mdx, out, mdxContent, pageData,
                   isExpanded>>

\* error instanceof Error ? error.message : "Unknown error"
ContentErrors == {"SecurityError", "", "Unknown error"}

\* the listener of the content script answers getPageHTML
onMessage ==
    /\ channel.kind = "request"
    /\ \/ channel' = [kind |-> "response", success |-> TRUE, error |-> ""]
       \/ \E e \in ContentErrors :
              channel' = [kind |-> "response", success |-> FALSE, error |-> e]
    /\ UNCHANGED <<parsed, doc, options, pc, mdx, out, mdxContent, isLoading,
                   error, pageData, isExpanded>>

\* browser.tabs.sendMessage rejects: nothing listens in the tab
sendMessageRejected ==
    /\ pc = "awaitResponse"
    /\ channel.kind = "request"
    /\ channel' = NoMessage
    /\ \E err \in Thrown : catchFinally(err)
    /\ UNCHANGED <<parsed, doc, options, mdx, out, mdxContent, pageData,
                   isExpanded>>

\* browser.tabs.sendMessage resolves: the rest of the run
responseReceived ==
    /\ pc = "awaitResponse"
    /\ channel.kind = "response"
    /\ channel' = NoMessage
    /\ IF ~channel.success
       THEN /\ catchFinally(NewError(IF channel.error # "" THEN channel.error
                                     ELSE "Failed to get page HTML"))
            /\ UNCHANGED <<doc, mdx, out, mdxContent, pageData>>
       ELSE /\ pageData' = [present |-> TRUE, title |-> parsed.title]
            /\ \/ /\ \E err \in Thrown : catchFinally(err)
                  /\ UNCHANGED <<doc, mdx, out, mdxContent>>
               \/ /\ doc' = [parsed EXCEPT !.body.kids = removeAll(@)]
                  /\ mdx' = assemble(doc', options)
                  /\ out' = cleanupMdx(mdx')
                  /\ mdxContent' = out'
                  /\ isLoading' = FALSE
                  /\ pc' = "idle"
                  /\ UNCHANGED error
    /\ UNCHANGED <<parsed, options, isExpanded>>

\* a click on "Try Again", which is rendered while error is not empty
resetApp ==
    /\ error # ""
    /\ mdxContent' = <<>>
    /\ error' = ""
    /\ pageData' = NoPageData
    /\ isExpanded' = FALSE
    /\ UNCHANGED <<parsed, doc, options, pc, mdx, out, isLoading, channel>>

\* a click on "Expand" or "Collapse", rendered while there is a result
setIsExpanded ==
    /\ mdxContent # <<>>
    /\ isExpanded' = ~isExpanded
    /\ UNCHANGED <<parsed, doc, options, pc, mdx, out, mdxContent, isLoading,
                   error, pageData, channel>>

NextPopup ==
    \/ transformToMdx
    \/ tabsQueryRejected
    \/ tabsQueryResolved
    \/ onMessage
    \/ sendMessageRejected
    \/ responseReceived
    \/ resetApp
    \/ setIsExpanded

SpecPopup == InitPopup /\ [][NextPopup]_vars

(* C11 - whenever no run of transformToMdx is under way, whether the last  *)
(* run ended by success or by a throw at the tab query, the message to the *)
(* content script, a failure response or the conversion, isLoading is      *)
(* false and error and mdxContent are not both non-empty; after any        *)
(* sequence of runs and resetApp calls.                                    *)
C11_RunEndsSettled ==
    pc = "idle" => (~isLoading /\ ~(error # "" /\ mdxContent # <<>>))

\* a run has thrown after an earlier step or run had stored the page data
C11_Witness ==
    /\ pc = "idle"
    /\ error # ""
    /\ pageData.present
    /\ mdxContent = <<>>
    /\ ~isLoading

====
